---- MODULE Spec2Model ----
(***************************************************************************)
(* Model of providers/solsms/solsms.go: the SMS provider of otpgateway.     *)
(* Strings the code builds or scans (configuration strings, URLs,           *)
(* addresses, message bodies, form payloads) are sequences of               *)
(* one-character strings; strings the code only compares or copies (the     *)
(* gateway's status and message, error texts) are atoms.                    *)
(***************************************************************************)
EXTENDS Integers, Sequences, FiniteSets, TLC

VARIABLES jsonCfg, newState, adapter, newErr, calls, pushCalls, doCalls, lastCall

vars == <<jsonCfg, newState, adapter, newErr, calls, pushCalls, doCalls, lastCall>>

(* ------------------------------ bounds -------------------------------- *)
\* callers that may run Push concurrently
NumCallers == 2
\* total number of Push invocations in one behaviour
MaxPushes == 2
\* longest digit run among the addresses given to ValidateAddress
MaxDigits == 17

Callers == 1..NumCallers

(* ----------------------------- constants ------------------------------ *)
providerID == "solsms"
channelName == "SMS"
addressName == "Mobile number"
maxAddresslen == 11
maxOTPlen == 6
maxBodyLen == 140
statusOK == "OK"
apiURL ==
  <<"h","t","t","p","s",":","/","/","a","p","i",".","k","a","l","e","y","r","a",
    ".","i","o","/","v","1","/">>
defaultTimeout == 5
maxIdleConnsPerHost == 1

Digits == {"0","1","2","3","4","5","6","7","8","9"}
HexDigits == Digits \cup {"A","B","C","D","E","F","a","b","c","d","e","f"}

(* ------------------------- JSON input values -------------------------- *)
\* A JSON scalar member value: absent key, null, a string or a number.
JAbsent == [t |-> "absent", s |-> <<>>, n |-> 0]
JNull == [t |-> "null", s |-> <<>>, n |-> 0]
JStr(s) == [t |-> "str", s |-> s, n |-> 0]
JNum(n) == [t |-> "num", s |-> <<>>, n |-> n]

CfgKeys == {"RootURL", "APIKey", "SID", "Sender", "Timeout", "MaxIdleConns"}
NoFields == [k \in CfgKeys |-> JAbsent]
\* A JSON document: malformed text, the literal null, an array, or an object.
JDoc(t, f) == [t |-> t, f |-> f]

\* decoding of one member into a Go string field / int field
StringField(v) == IF v.t = "str" THEN v.s ELSE <<>>
IntField(v) == IF v.t = "num" THEN v.n ELSE 0
StringFieldErr(v) == v.t = "num"
IntFieldErr(v) == v.t = "str"

\* the cfg struct; nil models the pointer being nil
NilCfg ==
  [nil |-> TRUE, RootURL |-> <<>>, APIKey |-> <<>>, SID |-> <<>>, Sender |-> <<>>,
   Timeout |-> 0, MaxIdleConns |-> 0]

\* json.Unmarshal(jsonCfg, &c) with c of type *cfg
UnmarshalCfg(doc) ==
  CASE doc.t = "bad" -> [err |-> "syntax", c |-> NilCfg]
    [] doc.t = "null" -> [err |-> "", c |-> NilCfg]
    [] doc.t = "arr" -> [err |-> "type", c |-> [NilCfg EXCEPT !.nil = FALSE]]
    [] OTHER ->
         [err |-> IF \/ \E k \in {"RootURL", "APIKey", "SID", "Sender"} :
                          StringFieldErr(doc.f[k])
                     \/ \E k \in {"Timeout", "MaxIdleConns"} : IntFieldErr(doc.f[k])
                  THEN "type" ELSE "",
          c |-> [nil |-> FALSE,
                 RootURL |-> StringField(doc.f["RootURL"]),
                 APIKey |-> StringField(doc.f["APIKey"]),
                 SID |-> StringField(doc.f["SID"]),
                 Sender |-> StringField(doc.f["Sender"]),
                 Timeout |-> IntField(doc.f["Timeout"]),
                 MaxIdleConns |-> IntField(doc.f["MaxIdleConns"])]]

(* --------------------------- string helpers --------------------------- *)
RECURSIVE TrimRight(_, _)
\* strings.TrimRight(s, cutset): drop every trailing character of cutset
TrimRight(s, cutset) ==
  IF Len(s) > 0 /\ s[Len(s)] \in cutset
  THEN TrimRight(SubSeq(s, 1, Len(s) - 1), cutset)
  ELSE s

messagesPath == <<"/","m","e","s","s","a","g","e","s">>

\* variant: the root is used as given, trailing slashes kept
ResolveURLKeepSlash(c) ==
  (IF c.RootURL = <<>> THEN apiURL ELSE c.RootURL) \o <<"/">> \o c.SID \o messagesPath

\* the endpoint New stores back into c.RootURL
ResolveURL(c) ==
  TrimRight(IF c.RootURL = <<>> THEN apiURL ELSE c.RootURL, {"/"})
    \o <<"/">> \o c.SID \o messagesPath

\* variant: the account identifier is not checked
MissingFieldNoSID(c) == c.APIKey = <<>> \/ c.Sender = <<>>

\* the required-field check of New
MissingField(c) == c.APIKey = <<>> \/ c.Sender = <<>> \/ c.SID = <<>>

\* the timeout in seconds New gives the client
ClientTimeout(c) == IF c.Timeout # 0 THEN c.Timeout ELSE defaultTimeout

NilClient == [Timeout |-> 0, MaxIdleConnsPerHost |-> 0, ResponseHeaderTimeout |-> 0]
\* the http.Client New builds
NewClient(c) ==
  [Timeout |-> ClientTimeout(c),
   MaxIdleConnsPerHost |-> maxIdleConnsPerHost,
   ResponseHeaderTimeout |-> ClientTimeout(c)]

NilSms == [nil |-> TRUE, cfg |-> NilCfg, h |-> NilClient]

\* New(jsonCfg): what it returns, or that it panics on the nil *cfg
NewResult(doc) ==
  LET u == UnmarshalCfg(doc)
      c == u.c
  IN  IF u.err # ""
      THEN [state |-> "err", err |-> u.err, s |-> NilSms]
      ELSE IF c.nil
      THEN [state |-> "panic", err |-> "nil pointer dereference", s |-> NilSms]
      ELSE IF MissingField(c)
      THEN [state |-> "err", err |-> "invalid APIKey or Sender or SID", s |-> NilSms]
      ELSE [state |-> "ok", err |-> "",
            s |-> [nil |-> FALSE,
                   cfg |-> [c EXCEPT !.RootURL = ResolveURL(c)],
                   h |-> NewClient(c)]]

(* --------------------------- ValidateAddress -------------------------- *)
AllDigits(s, i, j) == \A k \in i..j : s[k] \in Digits

\* s[i..j] is `\+?([0-9]){8,15}`
MatchAt(s, i, j) ==
  \/ /\ j - i + 1 >= 8 /\ j - i + 1 <= 15
     /\ AllDigits(s, i, j)
  \/ /\ s[i] = "+"
     /\ j - i >= 8 /\ j - i <= 15
     /\ AllDigits(s, i + 1, j)

\* reNum.MatchString(s): the expression is not anchored, any substring may match
MatchString(s) == \E i \in 1..Len(s) : \E j \in i..Len(s) : MatchAt(s, i, j)

\* the error ValidateAddress returns ("" is nil)
ValidateAddressErr(to) == IF ~MatchString(to) THEN "invalid mobile number" ELSE ""

(* -------------------------------- Push -------------------------------- *)
Unreserved ==
  Digits \cup {"a","b","c","d","e","f","g","h","i","j","k","l","m","n","o","p","q",
               "r","s","t","u","v","w","x","y","z","-","_",".","~"}

\* url.QueryEscape of one character
EscapeChar(ch) ==
  CASE ch \in Unreserved -> <<ch>>
    [] ch = " " -> <<"+">>
    [] ch = "+" -> <<"%","2","B">>
    [] ch = "&" -> <<"%","2","6">>
    [] ch = "=" -> <<"%","3","D">>
    [] ch = "%" -> <<"%","2","5">>
    [] ch = "/" -> <<"%","2","F">>
    [] ch = ":" -> <<"%","3","A">>

RECURSIVE QueryEscape(_)
\* url.QueryEscape(s): every character escaped in place (halving keeps the
\* evaluation shallow for long bodies)
QueryEscape(s) ==
  IF Len(s) = 0 THEN <<>>
  ELSE IF Len(s) = 1 THEN EscapeChar(s[1])
  ELSE LET m == Len(s) \div 2
       IN  QueryEscape(SubSeq(s, 1, m)) \o QueryEscape(SubSeq(s, m + 1, Len(s)))

\* variant: the values are joined without escaping
EncodeRaw(sender, to, body) ==
  <<"b","o","d","y","=">> \o body
    \o <<"&","s","e","n","d","e","r","=">> \o sender
    \o <<"&","t","o","=">> \o to

\* url.Values.Encode() of the three values Push sets: keys in sorted order
Encode(sender, to, body) ==
  <<"b","o","d","y","=">> \o QueryEscape(body)
    \o <<"&","s","e","n","d","e","r","=">> \o QueryEscape(sender)
    \o <<"&","t","o","=">> \o QueryEscape(to)

\* url.Parse inside http.NewRequest rejects a missing scheme and a bad escape
NewRequestErr(u) ==
  \/ Len(u) > 0 /\ u[1] = ":"
  \/ \E i \in 1..Len(u) :
       /\ u[i] = "%"
       /\ ~(i + 2 <= Len(u) /\ u[i + 1] \in HexDigits /\ u[i + 2] \in HexDigits)

NoReq == [method |-> "", url |-> <<>>, contentType |-> "", apiKey |-> <<>>, payload |-> <<>>]
\* the request Push builds
BuildRequest(s, to, body) ==
  [method |-> "POST",
   url |-> s.cfg.RootURL,
   contentType |-> "application/x-www-form-urlencoded",
   apiKey |-> s.cfg.APIKey,
   payload |-> Encode(s.cfg.Sender, to, body)]

\* gateway response bodies: members hold atoms
RStr(s) == [t |-> "str", s |-> s, n |-> 0]
RNum(n) == [t |-> "num", s |-> "", n |-> n]
RAbsent == [t |-> "absent", s |-> "", n |-> 0]
RNull == [t |-> "null", s |-> "", n |-> 0]
RDoc(t, status, message, data) ==
  [t |-> t, status |-> status, message |-> message, data |-> data]
NoReply == RDoc("none", RAbsent, RAbsent, RAbsent)

\* json.Unmarshal(b, &r) with r of type solSMSAPIResp
UnmarshalResp(b) ==
  CASE b.t = "bad" -> [err |-> "syntax", Status |-> "", Message |-> ""]
    [] b.t = "null" -> [err |-> "", Status |-> "", Message |-> ""]
    [] b.t = "arr" -> [err |-> "type", Status |-> "", Message |-> ""]
    [] OTHER ->
         [err |-> IF b.status.t = "num" \/ b.message.t = "num" THEN "type" ELSE "",
          Status |-> IF b.status.t = "str" THEN b.status.s ELSE "",
          Message |-> IF b.message.t = "str" THEN b.message.s ELSE ""]

\* an error value: the call that produced it and its text
Err(from, msg) == [from |-> from, msg |-> msg]
NoErr == Err("", "")

\* variant: the status is looked at before the decode error
PushResultStatusFirst(b) ==
  LET r == UnmarshalResp(b)
  IN  IF r.Status # statusOK THEN Err("errors.New", r.Message)
      ELSE IF r.err # "" THEN Err("json.Unmarshal", r.err)
      ELSE NoErr

\* what Push returns once the body b has been read
PushResult(b) ==
  LET r == UnmarshalResp(b)
  IN  IF r.err # "" THEN Err("json.Unmarshal", r.err)
      ELSE IF r.Status # statusOK THEN Err("errors.New", r.Message)
      ELSE NoErr

\* the client enforces a deadline only for a positive Timeout
TimerArmed(h) == h.Timeout > 0

\* what is left of a call once Push has returned: the request and the
\* arguments are gone, the outcome stays
Returned(k, io, reply, ret) ==
  [pc |-> "returned", to |-> <<>>, body |-> <<>>, sends |-> k.sends, req |-> NoReq,
   io |-> io, reply |-> reply, ret |-> ret]

IdleCall ==
  [pc |-> "idle", to |-> <<>>, body |-> <<>>, sends |-> 0, req |-> NoReq,
   io |-> "", reply |-> NoReply, ret |-> NoErr]

(* ------------------------------- inputs ------------------------------- *)
Str_x == <<"h","t","t","p","s",":","/","/","x">>
Str_acct == <<"a","c","c","t">>

CfgDoc(root, key, sid, sender, timeout, idle) ==
  JDoc("obj", [k \in CfgKeys |->
                 CASE k = "RootURL" -> root
                   [] k = "APIKey" -> key
                   [] k = "SID" -> sid
                   [] k = "Sender" -> sender
                   [] k = "Timeout" -> timeout
                   [] k = "MaxIdleConns" -> idle])

RootURLVals ==
  {JAbsent, JStr(<<>>), JStr(Str_x), JStr(Str_x \o <<"/">>), JStr(Str_x \o <<"/","/">>),
   JStr(<<"/">>), JStr(<<"%">>), JNum(1)}
APIKeyVals == {JAbsent, JStr(<<>>), JStr(<<"k">>)}
SIDVals == {JAbsent, JStr(<<>>), JStr(Str_acct)}
SenderVals == {JAbsent, JStr(<<>>), JStr(<<"s">>)}
TimeoutVals == {JAbsent, JNum(0), JNum(3), JNum(-1), JStr(<<"5">>)}
MaxIdleConnsVals == {JAbsent, JNum(0), JNum(3)}

\* configuration blobs given to New when New is examined on its own
Configs ==
  {JDoc("bad", NoFields), JDoc("null", NoFields), JDoc("arr", NoFields)}
    \cup {CfgDoc(r, k, i, n, t, m) :
            r \in RootURLVals, k \in APIKeyVals, i \in SIDVals, n \in SenderVals,
            t \in TimeoutVals, m \in MaxIdleConnsVals}

GoodDoc(root, timeout) ==
  CfgDoc(root, JStr(<<"k">>), JStr(Str_acct), JStr(<<"s">>), timeout, JAbsent)

\* configuration blobs given to New ahead of Push
PushConfigs ==
  {JDoc("bad", NoFields), JDoc("null", NoFields),
   CfgDoc(JAbsent, JStr(<<"k">>), JAbsent, JStr(<<"s">>), JAbsent, JAbsent),
   GoodDoc(JStr(Str_x \o <<"/">>), JNum(3)),
   GoodDoc(JAbsent, JNum(-1)),
   GoodDoc(JStr(<<"%">>), JAbsent)}

DigitSeq == <<"1","2","3","4","5","6","7","8","9","0">>
DigitRun(n) == [i \in 1..n |-> DigitSeq[((i - 1) % 10) + 1]]

AddrPrefixes == {<<>>, <<"+">>, <<"a">>, <<"+","+">>, <<"1","a">>}
AddrSuffixes == {<<>>, <<"a">>, <<"+">>, <<"a","1">>}
\* addresses given to ValidateAddress when it is examined on its own
Addresses ==
  {p \o DigitRun(n) \o q : p \in AddrPrefixes, n \in 0..MaxDigits, q \in AddrSuffixes}

\* addresses given to Push (and to ValidateAddress next to Push)
PushAddrs == {<<"+">> \o DigitRun(10), <<"a","b">>}

LongBody == [i \in 1..(maxBodyLen + 1) |-> "z"]
\* (address, body) arguments given to Push
PushArgs ==
  {<<<<"+">> \o DigitRun(10), <<"1","2","3"," ","&","t","o","=","+","%">>>>,
   <<<<"a","b">>, LongBody>>}

\* bodies the gateway may answer with
Replies ==
  {RDoc("bad", RAbsent, RAbsent, RAbsent),
   RDoc("null", RAbsent, RAbsent, RAbsent),
   RDoc("arr", RAbsent, RAbsent, RAbsent),
   RDoc("obj", RStr("OK"), RAbsent, RAbsent),
   RDoc("obj", RStr("OK"), RStr("queued"), RNum(1)),
   RDoc("obj", RStr("OK"), RNum(7), RAbsent),
   RDoc("obj", RStr("FAIL"), RStr("bad sender"), RAbsent),
   RDoc("obj", RStr("ok"), RStr("lower case"), RStr("OK")),
   RDoc("obj", RAbsent, RStr("no status"), RAbsent),
   RDoc("obj", RNum(5), RStr("numeric status"), RAbsent)}

NoCall == [op |-> "", arg |-> <<>>, ret |-> "", n |-> 0]

(* ------------------------------- actions ------------------------------ *)
Init ==
  /\ jsonCfg = JDoc("none", NoFields)
  /\ newState = "none"
  /\ adapter = NilSms
  /\ newErr = ""
  /\ calls = [c \in Callers |-> IdleCall]
  /\ pushCalls = 0
  /\ doCalls = 0
  /\ lastCall = NoCall

New(doc) ==
  /\ newState = "none"
  /\ jsonCfg' = doc
  /\ newState' = NewResult(doc).state
  /\ newErr' = NewResult(doc).err
  /\ adapter' = NewResult(doc).s
  /\ UNCHANGED <<calls, pushCalls, doCalls, lastCall>>

ValidateAddress(to) ==
  /\ newState = "ok"
  /\ lastCall' = [op |-> "ValidateAddress", arg |-> to, ret |-> ValidateAddressErr(to),
                  n |-> 0]
  /\ UNCHANGED <<jsonCfg, newState, adapter, newErr, calls, pushCalls, doCalls>>

\* MaxAddressLen, MaxOTPLen, MaxBodyLen
Limits ==
  [MaxAddressLen |-> maxAddresslen, MaxOTPLen |-> maxOTPlen, MaxBodyLen |-> maxBodyLen]

Accessor(name) ==
  /\ newState = "ok"
  /\ lastCall' = [op |-> name, arg |-> <<>>, ret |-> "", n |-> Limits[name]]
  /\ UNCHANGED <<jsonCfg, newState, adapter, newErr, calls, pushCalls, doCalls>>

\* variant: Push joins the account path onto the stored endpoint again
PushCallResolveAgain(c, to, body) ==
  /\ newState = "ok"
  /\ calls[c].pc \in {"idle", "returned"}
  /\ pushCalls < MaxPushes
  /\ pushCalls' = pushCalls + 1
  /\ adapter' = [adapter EXCEPT !.cfg.RootURL = ResolveURL(adapter.cfg)]
  /\ IF NewRequestErr(adapter'.cfg.RootURL)
     THEN /\ calls' = [calls EXCEPT ![c] =
                         [IdleCall EXCEPT !.pc = "returned",
                                          !.ret = Err("http.NewRequest", "parse")]]
          /\ UNCHANGED doCalls
     ELSE /\ calls' = [calls EXCEPT ![c] =
                         [IdleCall EXCEPT !.pc = "waiting", !.to = to, !.body = body,
                                          !.sends = 1,
                                          !.req = BuildRequest(adapter', to, body)]]
          /\ doCalls' = doCalls + 1
  /\ UNCHANGED <<jsonCfg, newState, newErr, lastCall>>

\* Push up to and including s.h.Do(req) being entered
PushCall(c, to, body) ==
  /\ newState = "ok"
  /\ calls[c].pc \in {"idle", "returned"}
  /\ pushCalls < MaxPushes
  /\ pushCalls' = pushCalls + 1
  /\ IF NewRequestErr(adapter.cfg.RootURL)
     THEN /\ calls' = [calls EXCEPT ![c] =
                         [IdleCall EXCEPT !.pc = "returned",
                                          !.ret = Err("http.NewRequest", "parse")]]
          /\ UNCHANGED doCalls
     ELSE /\ calls' = [calls EXCEPT ![c] =
                         [IdleCall EXCEPT !.pc = "waiting", !.to = to, !.body = body,
                                          !.sends = 1,
                                          !.req = BuildRequest(adapter, to, body)]]
          /\ doCalls' = doCalls + 1
  /\ UNCHANGED <<jsonCfg, newState, adapter, newErr, lastCall>>

\* variant: a failed request is sent once more
DoFailRetry(c) ==
  /\ calls[c].pc = "waiting"
  /\ IF calls[c].sends < 2
     THEN /\ calls' = [calls EXCEPT ![c].sends = @ + 1]
          /\ doCalls' = doCalls + 1
     ELSE /\ calls' = [calls EXCEPT ![c] =
                         Returned(@, "transport", NoReply, Err("http.Client.Do", "transport"))]
          /\ UNCHANGED doCalls
  /\ UNCHANGED <<jsonCfg, newState, adapter, newErr, pushCalls, lastCall>>

\* s.h.Do fails: connection refused, DNS, TLS, ...
DoFail(c) ==
  /\ calls[c].pc = "waiting"
  /\ calls' = [calls EXCEPT ![c] =
                 Returned(@, "transport", NoReply, Err("http.Client.Do", "transport"))]
  /\ UNCHANGED <<jsonCfg, newState, adapter, newErr, pushCalls, doCalls, lastCall>>

\* the client's deadline passes while waiting for the response or reading it
DoTimeout(c) ==
  /\ calls[c].pc \in {"waiting", "reading"}
  /\ TimerArmed(adapter.h)
  /\ calls' = [calls EXCEPT ![c] =
                 Returned(@, "timeout", NoReply,
                          Err(IF calls[c].pc = "waiting"
                              THEN "http.Client.Do" ELSE "ioutil.ReadAll", "timeout"))]
  /\ UNCHANGED <<jsonCfg, newState, adapter, newErr, pushCalls, doCalls, lastCall>>

\* s.h.Do returns a response
DoRespond(c) ==
  /\ calls[c].pc = "waiting"
  /\ calls' = [calls EXCEPT ![c].pc = "reading"]
  /\ UNCHANGED <<jsonCfg, newState, adapter, newErr, pushCalls, doCalls, lastCall>>

\* ioutil.ReadAll fails
ReadAllFail(c) ==
  /\ calls[c].pc = "reading"
  /\ calls' = [calls EXCEPT ![c] =
                 Returned(@, "readfail", NoReply, Err("ioutil.ReadAll", "read"))]
  /\ UNCHANGED <<jsonCfg, newState, adapter, newErr, pushCalls, doCalls, lastCall>>

\* ioutil.ReadAll returns the body b, which is decoded and classified
ReadAllDone(c, b) ==
  /\ calls[c].pc = "reading"
  /\ calls' = [calls EXCEPT ![c] = Returned(@, "read", b, PushResult(b))]
  /\ UNCHANGED <<jsonCfg, newState, adapter, newErr, pushCalls, doCalls, lastCall>>

Next ==
  \/ \E doc \in PushConfigs : New(doc)
  \/ \E to \in PushAddrs : ValidateAddress(to)
  \/ \E name \in DOMAIN Limits : Accessor(name)
  \/ \E c \in Callers : \E a \in PushArgs : PushCall(c, a[1], a[2])
  \/ \E c \in Callers : DoFail(c)
  \/ \E c \in Callers : DoTimeout(c)
  \/ \E c \in Callers : DoRespond(c)
  \/ \E c \in Callers : ReadAllFail(c)
  \/ \E c \in Callers : \E b \in Replies : ReadAllDone(c, b)

Spec == Init /\ [][Next]_vars

\* the timer and the local steps of Push run; the gateway may stay silent
FairSpec ==
  /\ Spec
  /\ \A c \in Callers : WF_vars(DoTimeout(c))

NextNew == \E doc \in Configs : New(doc)

SpecNew == Init /\ [][NextNew]_vars

InitValidate ==
  /\ jsonCfg = GoodDoc(JAbsent, JAbsent)
  /\ newState = NewResult(jsonCfg).state
  /\ newErr = NewResult(jsonCfg).err
  /\ adapter = NewResult(jsonCfg).s
  /\ calls = [c \in Callers |-> IdleCall]
  /\ pushCalls = 0
  /\ doCalls = 0
  /\ lastCall = NoCall

NextValidate == \E to \in Addresses : ValidateAddress(to)

SpecValidate == InitValidate /\ [][NextValidate]_vars

(* ============================== properties ============================ *)
IsEmptyMember(doc, k) ==
  doc.f[k].t \in {"absent", "null"} \/ (doc.f[k].t = "str" /\ doc.f[k].s = <<>>)

\* an optional leading '+', then 8 to 15 digits and nothing else
PhoneShape(s) ==
  LET d == IF Len(s) > 0 /\ s[1] = "+" THEN Tail(s) ELSE s
  IN  /\ Len(d) >= 8 /\ Len(d) <= 15
      /\ \A k \in 1..Len(d) : d[k] \in Digits

\* C1: ValidateAddress returns nil exactly for the strings that are, as a
\* whole, an optional '+' followed by 8 to 15 digits; every other string gets
\* the invalid-address error.
C1_ValidateAddressWholeString ==
  lastCall.op = "ValidateAddress" =>
    (lastCall.ret = "" <=> PhoneShape(lastCall.arg))

\* C2: New returns an error and no adapter whenever one of APIKey, Sender, SID
\* is empty in the configuration object, whatever RootURL, Timeout and
\* MaxIdleConns are; an adapter is returned only when all three are non-empty.
C2_MissingFieldRejected ==
  newState # "none" =>
    /\ (jsonCfg.t = "obj" /\ \E k \in {"APIKey", "Sender", "SID"} : IsEmptyMember(jsonCfg, k))
         => (newState = "err" /\ newErr # "" /\ adapter.nil)
    /\ ~adapter.nil =>
         /\ newState = "ok"
         /\ \A k \in {"APIKey", "Sender", "SID"} :
              jsonCfg.f[k].t = "str" /\ jsonCfg.f[k].s # <<>>

C2_Witness ==
  /\ newState = "err"
  /\ jsonCfg.t = "obj"
  /\ IsEmptyMember(jsonCfg, "SID")
  /\ ~IsEmptyMember(jsonCfg, "APIKey") /\ jsonCfg.f["APIKey"].t = "str"
  /\ ~IsEmptyMember(jsonCfg, "Sender") /\ jsonCfg.f["Sender"].t = "str"
  /\ jsonCfg.f["RootURL"].t = "str" /\ jsonCfg.f["Timeout"].t = "num"
  /\ jsonCfg.f["MaxIdleConns"].t = "num"

\* a blob that does not decode into the cfg shape: malformed text, a value of
\* the wrong type (at the top or in a member), or the literal null
Undecodable(doc) ==
  \/ doc.t \in {"bad", "arr", "null"}
  \/ /\ doc.t = "obj"
     /\ \/ \E k \in {"RootURL", "APIKey", "SID", "Sender"} : doc.f[k].t = "num"
        \/ \E k \in {"Timeout", "MaxIdleConns"} : doc.f[k].t = "str"

\* C3: for every blob that cannot be decoded into the cfg shape (malformed
\* JSON, a value of the wrong type, the literal null) New returns an error
\* value: it neither panics nor returns an adapter.
C3_UndecodableGivesError ==
  (newState # "none" /\ Undecodable(jsonCfg)) =>
    (newState = "err" /\ newErr # "" /\ adapter.nil)

\* C4: after a successful New the endpoint is <root>/<SID>/messages, where
\* <root> is the configured RootURL (the default base when unset or empty)
\* without its trailing slashes, so one '/' separates root and SID;
\* "https://x/" with SID "acct" gives "https://x/acct/messages".
C4_EndpointNormalized ==
  newState = "ok" =>
    LET given == jsonCfg.f["RootURL"]
        base == IF given.t = "str" /\ given.s # <<>> THEN given.s ELSE apiURL
        sid == jsonCfg.f["SID"].s
        url == adapter.cfg.RootURL
    IN  /\ \E n \in 0..Len(base) :
             /\ n > 0 => base[n] # "/"
             /\ \A k \in (n + 1)..Len(base) : base[k] = "/"
             /\ url = SubSeq(base, 1, n) \o <<"/">> \o sid \o messagesPath
        /\ (base = Str_x \o <<"/">> /\ sid = Str_acct) =>
             url = <<"h","t","t","p","s",":","/","/","x","/","a","c","c","t",
                     "/","m","e","s","s","a","g","e","s">>
        /\ given.t # "str" =>
             url = <<"h","t","t","p","s",":","/","/","a","p","i",".","k","a","l","e",
                     "y","r","a",".","i","o","/","v","1","/">> \o sid \o messagesPath

C4_Witness ==
  /\ newState = "ok"
  /\ jsonCfg.f["RootURL"] = JStr(Str_x \o <<"/","/">>)
  /\ jsonCfg.f["SID"] = JStr(Str_acct)

\* C9: the client's timeout is the configured Timeout in seconds (5 when
\* unset or zero) and its idle-connection cap per host is the configured
\* MaxIdleConns (the default when unset).
C9_TransportFromConfig ==
  newState = "ok" =>
    /\ adapter.h.Timeout =
         IF jsonCfg.f["Timeout"].t = "num" /\ jsonCfg.f["Timeout"].n # 0
         THEN jsonCfg.f["Timeout"].n ELSE 5
    /\ adapter.h.MaxIdleConnsPerHost =
         IF jsonCfg.f["MaxIdleConns"].t = "num" /\ jsonCfg.f["MaxIdleConns"].n # 0
         THEN jsonCfg.f["MaxIdleConns"].n ELSE maxIdleConnsPerHost

\* the outcome kind of an error value, by the call that produced it
Kind(e) ==
  CASE e.from \in {"http.Client.Do", "ioutil.ReadAll"} -> "Transport"
    [] e.from = "json.Unmarshal" -> "Protocol"
    [] e.from = "errors.New" -> "Rejected"
    [] e.from = "http.NewRequest" -> "Request"
    [] OTHER -> "Success"

\* a body that is a GatewayResponse: an object (or null) whose status and
\* message, when present, are strings or null
IsGatewayResponse(b) ==
  \/ b.t = "null"
  \/ b.t = "obj" /\ b.status.t # "num" /\ b.message.t # "num"

StatusOf(b) == IF b.t = "obj" /\ b.status.t = "str" THEN b.status.s ELSE ""
MessageOf(b) == IF b.t = "obj" /\ b.message.t = "str" THEN b.message.s ELSE ""

RoundTripFailed(k) == k.io \in {"transport", "timeout", "readfail"}

\* C5: a Push that sent its request is classified in order: transport or
\* body-read failure gives Transport; else an undecodable body gives
\* Protocol; else a status other than "OK" gives Rejected with the gateway's
\* message; else success. So it succeeds exactly when the round trip
\* completed, the body decoded and status is "OK", whatever data holds.
C5_OutcomeClassification ==
  \A c \in Callers :
    LET k == calls[c]
    IN  (k.pc = "returned" /\ k.sends > 0) =>
          /\ IF RoundTripFailed(k) THEN Kind(k.ret) = "Transport"
             ELSE IF ~IsGatewayResponse(k.reply) THEN Kind(k.ret) = "Protocol"
             ELSE IF StatusOf(k.reply) # "OK"
                  THEN Kind(k.ret) = "Rejected" /\ k.ret.msg = MessageOf(k.reply)
             ELSE k.ret = NoErr
          /\ k.ret = NoErr <=>
               (k.io = "read" /\ IsGatewayResponse(k.reply) /\ StatusOf(k.reply) = "OK")

C5_Witness ==
  \E c, d \in Callers :
    /\ calls[c].pc = "returned" /\ calls[c].sends > 0
    /\ calls[c].io = "read" /\ Kind(calls[c].ret) = "Rejected"
    /\ calls[c].ret.msg = "bad sender"
    /\ calls[d].pc = "returned" /\ calls[d].io = "read"
    /\ calls[d].reply.status = RStr("OK") /\ calls[d].reply.message = RNum(7)

\* C6: every Push that reaches the send step issues exactly one request,
\* whatever its outcome; nothing is sent again after a failure, so the
\* requests issued number the Push calls that reached the send step.
C6_OneRequestPerPush ==
  /\ \A c \in Callers :
       /\ calls[c].pc \in {"waiting", "reading"} => calls[c].sends = 1
       /\ calls[c].pc = "returned" =>
            calls[c].sends = IF Kind(calls[c].ret) = "Request" THEN 0 ELSE 1
  /\ newState = "ok" =>
       doCalls = IF NewRequestErr(adapter.cfg.RootURL) THEN 0 ELSE pushCalls
  /\ newState # "ok" => doCalls = 0 /\ pushCalls = 0

C6_Witness ==
  /\ pushCalls >= 2 /\ doCalls = pushCalls
  /\ \E c \in Callers :
       calls[c].pc = "returned" /\ calls[c].io = "transport" /\ calls[c].sends = 1
  /\ \A c \in Callers : calls[c].pc = "returned"

\* C8: once New has returned an adapter its configuration and client
\* settings never change, on any step of any caller; a step of one call
\* leaves every other call untouched, and calls that read the same reply
\* return the same result.
C8_AdapterImmutable ==
  [][newState = "ok" =>
       /\ newState' = "ok"
       /\ adapter' = adapter
       /\ \A c, d \in Callers :
            (c # d /\ calls'[c] # calls[c]) => calls'[d] = calls[d]
       /\ \A c, d \in Callers :
            (/\ calls'[c].pc = "returned" /\ calls'[d].pc = "returned"
             /\ calls'[c].io = "read" /\ calls'[d].io = "read"
             /\ calls'[c].reply = calls'[d].reply)
              => calls'[c].ret = calls'[d].ret]_vars

C8_Witness ==
  /\ newState = "ok"
  /\ lastCall.op = "ValidateAddress"
  /\ \E c, d \in Callers :
       /\ c # d
       /\ calls[c].pc = "returned" /\ calls[c].io = "timeout"
       /\ calls[d].pc = "reading"

(* ---- reading a form payload back, as the gateway does ---- *)
UnescapeHex(a, b) ==
  CASE <<a, b>> = <<"2", "B">> -> "+"
    [] <<a, b>> = <<"2", "6">> -> "&"
    [] <<a, b>> = <<"3", "D">> -> "="
    [] <<a, b>> = <<"2", "5">> -> "%"
    [] <<a, b>> = <<"2", "F">> -> "/"
    [] <<a, b>> = <<"3", "A">> -> ":"
    [] OTHER -> "?"

RECURSIVE QueryUnescape(_)
QueryUnescape(s) ==
  IF Len(s) = 0 THEN <<>>
  ELSE IF s[1] = "%"
  THEN IF Len(s) < 3 THEN <<"?">>
       ELSE <<UnescapeHex(s[2], s[3])>> \o QueryUnescape(SubSeq(s, 4, Len(s)))
  ELSE IF Len(s) = 1 THEN <<IF s[1] = "+" THEN " " ELSE s[1]>>
  ELSE LET m0 == (Len(s) \div 2) + 1
           m == IF s[m0 - 1] = "%" THEN m0 - 1
                ELSE IF m0 >= 3 /\ s[m0 - 2] = "%" THEN m0 - 2
                ELSE m0
       IN  QueryUnescape(SubSeq(s, 1, m - 1)) \o QueryUnescape(SubSeq(s, m, Len(s)))

\* the set of <<key, value>> fields of a form payload
ParseQuery(p) ==
  LET seps == {0, Len(p) + 1} \cup {i \in 1..Len(p) : p[i] = "&"}
      parts == {SubSeq(p, a + 1, b - 1) :
                  <<a, b>> \in {x \in seps \X seps :
                                 x[1] < x[2] /\ ~\E y \in seps : x[1] < y /\ y < x[2]}}
      Field(f) ==
        LET eqs == {i \in 1..Len(f) : f[i] = "="}
        IN  IF eqs = {} THEN <<QueryUnescape(f), <<>>>>
            ELSE LET e == CHOOSE i \in eqs : \A j \in eqs : i <= j
                 IN  <<QueryUnescape(SubSeq(f, 1, e - 1)),
                       QueryUnescape(SubSeq(f, e + 1, Len(f)))>>
  IN  {Field(f) : f \in parts}

\* C10: the request Push has sent and is waiting on is a POST to the resolved endpoint, with the
\* configured API key in the api-key header and a form payload of exactly
\* the fields sender, to and body, holding the configured sender and the
\* call's address and body unchanged; nothing is checked or cut, so an
\* over-long body or an address ValidateAddress rejects is sent as given.
C10_RequestContents ==
  \A c \in Callers :
    calls[c].pc \in {"waiting", "reading"} =>
      /\ calls[c].req.method = "POST"
      /\ calls[c].req.url = adapter.cfg.RootURL
      /\ calls[c].req.contentType = "application/x-www-form-urlencoded"
      /\ calls[c].req.apiKey = jsonCfg.f["APIKey"].s
      /\ ParseQuery(calls[c].req.payload) =
           {<<<<"s","e","n","d","e","r">>, jsonCfg.f["Sender"].s>>,
            <<<<"t","o">>, calls[c].to>>,
            <<<<"b","o","d","y">>, calls[c].body>>}

C10_Witness ==
  \E c, d \in Callers :
    /\ calls[c].pc = "waiting"
    /\ Len(calls[c].body) > maxBodyLen
    /\ ValidateAddressErr(calls[c].to) # ""
    /\ calls[d].pc = "reading"
    /\ \E i \in 1..Len(calls[d].body) : calls[d].body[i] = "&"
    /\ ValidateAddressErr(calls[d].to) = ""

\* C7: every Push that is waiting for the gateway eventually returns; when
\* the gateway stays silent the timeout ends the wait with a Transport error.
C7_PushEventuallyReturns ==
  \A c \in Callers :
    (calls[c].pc \in {"waiting", "reading"}) ~> (calls[c].pc = "returned")
====
